---- MODULE Spec2Model ----
(***************************************************************************)
(* cargo-vendor-checksum: recomputation of the per-package checksum        *)
(* manifests (.cargo-checksum.json) of a vendor directory.                 *)
(*                                                                         *)
(* A path (PathBuf) is the sequence of its components.  The file system is *)
(* split into the vendored files (fs), the manifest files (disk) and the   *)
(* set of manifest files that may be written (writable).  A manifest file  *)
(* holds a JSON document whose "files" object is kept as the sequence of   *)
(* its members in document order; the in-memory Checksum holds a BTreeMap. *)
(***************************************************************************)
EXTENDS Integers, Sequences, FiniteSets, TLC

VARIABLES
    fs,                  \* vendored files: full path -> "absent" | "dir" | content
    disk,                \* manifest files: full path -> document
    writable,            \* manifest paths fs::write may write
    entries,             \* names of the entries of the vendor directory
    mode,                \* request shape: "files" | "packages" | "all" | "roundtrip"
    files_in_vendor_dir, \* Cli.files.files_in_vendor_dir
    packages,            \* Cli.files.packages, or the result of get_packages
    ignore_missing,      \* Cli.ignore_missing
    pc,                  \* position of main / of the running mode
    results,             \* Mode A: results[i] of the parallel map, "pending" until computed
    idx,                 \* Mode A: index of the next result of the merge loop
    checksums,           \* Mode A: BTreeMap<OsString, Checksum>
    tasks,               \* Mode B: per element of packages, the state of its closure
    err,                 \* the error main returns; kind "none" while there is none
    disk0,               \* history: manifest files when the run started
    loads,               \* history: manifest path -> number of Checksum::new calls
    writes,              \* history: manifest path -> number of fs::write calls that wrote
    run,                 \* history: 1 for the first invocation, 2 for the second
    first,               \* history: what the first invocation left (disk, err)
    rerun,               \* history: how the second invocation was started
    args                 \* Cli.files.all and Cli.files.completion

vars == <<fs, disk, writable, entries, mode, files_in_vendor_dir, packages,
          ignore_missing, pc, results, idx, checksums, tasks, err,
          disk0, loads, writes, run, first, rerun, args>>

(***************************************************************************)
(* Bounds of the model.                                                    *)
(***************************************************************************)
MaxReq == 2        \* longest request list (files or packages)
MaxFaults == 1     \* most environment faults (unreadable file, bad manifest, ...)
MaxEntries == 2    \* most members of the "files" object of an initial manifest
MaxSegs == 3       \* most components of a requested path when the split is examined

(***************************************************************************)
(* Names, paths and their order.                                           *)
(***************************************************************************)
Pkgs == {"p1", "p2"}
Names == {"a", "b"}
vendor == <<"vendor">>
ChecksumFile == ".cargo-checksum.json"

\* byte order of the component names used by the model
SegOrder == <<".cargo-checksum.json", "a", "b", "p1", "p2", "stray", "vendor">>
Rank(s) == CHOOSE k \in 1..Len(SegOrder) : SegOrder[k] = s

\* Ord of OsString
NameLess(s, t) == Rank(s) < Rank(t)

\* Ord of PathBuf: lexicographic on the components
RECURSIVE PathLess(_, _)
PathLess(p, q) ==
    IF q = <<>> THEN FALSE
    ELSE IF p = <<>> THEN TRUE
    ELSE IF Head(p) # Head(q) THEN NameLess(Head(p), Head(q))
    ELSE PathLess(Tail(p), Tail(q))

join(base, p) == base \o p

ManifestPath(pkg) == join(join(vendor, <<pkg>>), <<ChecksumFile>>)

(***************************************************************************)
(* Digest engine.                                                          *)
(***************************************************************************)
Contents == {"c0", "c1", "c2"}
Digest(c) == CASE c = "c0" -> "h0" [] c = "c1" -> "h1" [] OTHER -> "h2"
Hashes == {Digest(c) : c \in Contents}

\* variant: whatever cannot be hashed counts as missing
existsReadable(f, file) == file \in DOMAIN f /\ f[file] \in {"c0", "c1", "c2"}

\* Path::exists
exists(f, file) == file \in DOMAIN f /\ f[file] # "absent"

\* sha256::try_digest: Ok(digest) for a regular file, Err otherwise
try_digest_ok(f, file) == file \in DOMAIN f /\ f[file] \in Contents
try_digest(f, file) == Digest(f[file])

(***************************************************************************)
(* Manifest store.                                                         *)
(***************************************************************************)
None == <<>>
Some(x) == <<x>>

NoDoc(k) == [kind |-> k, files |-> <<>>, package |-> None, extra |-> {}]

RECURSIVE FromEntries(_)
\* a JSON object read into a BTreeMap: a later member replaces an earlier one
FromEntries(es) ==
    IF es = <<>> THEN <<>>
    ELSE LET n == Len(es)
             init == FromEntries(SubSeq(es, 1, n - 1))
             k == es[n][1]
         IN  [x \in (DOMAIN init) \cup {k} |-> IF x = k THEN es[n][2] ELSE init[x]]

RECURSIVE SortedKeys(_)
\* iteration order of a BTreeMap<PathBuf, _>
SortedKeys(S) ==
    IF S = {} THEN <<>>
    ELSE LET m == CHOOSE x \in S : \A y \in S \ {x} : PathLess(x, y)
         IN  <<m>> \o SortedKeys(S \ {m})

ToEntries(map) ==
    LET ks == SortedKeys(DOMAIN map)
    IN  [k \in 1..Len(ks) |-> <<ks[k], map[ks[k]]>>]

\* fs::read_to_string
read_ok(d, cksum_file) == cksum_file \in DOMAIN d /\ d[cksum_file].kind # "missing"
\* serde_json::from_str::<Checksum>
parse_ok(d, cksum_file) == d[cksum_file].kind = "json"

\* Checksum::new, when it succeeds
New(d, cksum_file) ==
    [files |-> FromEntries(d[cksum_file].files),
     package |-> d[cksum_file].package,
     path |-> cksum_file]

NewErr(d, cksum_file) ==
    IF ~read_ok(d, cksum_file) THEN [kind |-> "ReadManifest", path |-> cksum_file]
    ELSE IF ~parse_ok(d, cksum_file) THEN [kind |-> "ParseManifest", path |-> cksum_file]
    ELSE [kind |-> "none", path |-> <<>>]

\* variant: the package field is not serialized
to_stringNoPackage(checksum) ==
    [kind |-> "json", files |-> ToEntries(checksum.files), package |-> None, extra |-> {}]

\* serde_json::to_string(&self): files in BTreeMap order, package, path skipped
to_string(checksum) ==
    [kind |-> "json", files |-> ToEntries(checksum.files),
     package |-> checksum.package, extra |-> {}]

\* variant: the members are appended to the "files" object already in the file
WriteAppends(d, checksum) ==
    [p \in (DOMAIN d) \cup {checksum.path} |->
        IF p # checksum.path THEN d[p]
        ELSE IF p \in DOMAIN d /\ d[p].kind = "json"
        THEN [to_string(checksum) EXCEPT !.files = d[p].files \o @]
        ELSE to_string(checksum)]

\* Checksum::write: fs::write replaces the whole file at self.path
write_ok(w, checksum) == checksum.path \in w
Write(d, checksum) ==
    [p \in (DOMAIN d) \cup {checksum.path} |->
        IF p = checksum.path THEN to_string(checksum) ELSE d[p]]

\* variant: the insertion drops the other entries of the map
InsertOnly(map, k, v) == [x \in {k} |-> v]

\* BTreeMap::insert / BTreeMap::remove on checksum.files
Insert(map, k, v) == [x \in (DOMAIN map) \cup {k} |-> IF x = k THEN v ELSE map[x]]

\* variant: the entry of a missing file is left in place
RemoveKeeps(map, k) == map

Remove(map, k) == [x \in (DOMAIN map) \ {k} |-> map[x]]

\* variant: a key that is already present keeps its old hash
UpsertKeepsOld(map, k, digest) ==
    IF digest # None
    THEN (IF k \in DOMAIN map THEN map ELSE Insert(map, k, digest[1]))
    ELSE Remove(map, k)

\* the branch on the digest at the end of both merge loops
Upsert(map, k, digest) ==
    IF digest # None THEN Insert(map, k, digest[1]) ELSE Remove(map, k)

NoErr == [kind |-> "none", path |-> <<>>]

Bump(cnt, p) == [x \in (DOMAIN cnt) \cup {p} |->
                    IF x = p THEN (IF p \in DOMAIN cnt THEN cnt[p] ELSE 0) + 1 ELSE cnt[x]]

(***************************************************************************)
(* Mode A: process_files_in_vendor_dir.                                    *)
(***************************************************************************)
Pending == [st |-> "pending", pkg |-> "", file |-> <<>>, digest |-> None, err |-> NoErr]

\* variant: the length check is off by one
FileResultOffByOne(f, ignore, file_in_vendor_dir) ==
    LET file_parts == file_in_vendor_dir
    IN  IF Len(file_parts) < 1
        THEN [st |-> "err", pkg |-> "", file |-> <<>>, digest |-> None,
              err |-> [kind |-> "InvalidRequest", path |-> file_in_vendor_dir]]
        ELSE LET pkg == file_parts[1]
                 full_file == join(vendor, file_in_vendor_dir)
                 file_in_pkg == SubSeq(file_parts, 2, Len(file_parts))
             IN  IF ignore /\ ~exists(f, full_file)
                 THEN [st |-> "ok", pkg |-> pkg, file |-> file_in_pkg,
                       digest |-> None, err |-> NoErr]
                 ELSE IF ~try_digest_ok(f, full_file)
                 THEN [st |-> "err", pkg |-> "", file |-> <<>>, digest |-> None,
                       err |-> [kind |-> "HashIo", path |-> full_file]]
                 ELSE [st |-> "ok", pkg |-> pkg, file |-> file_in_pkg,
                       digest |-> Some(try_digest(f, full_file)), err |-> NoErr]

\* variant: the path in the package is the file name alone
FileResultFileName(f, ignore, file_in_vendor_dir) ==
    LET file_parts == file_in_vendor_dir
    IN  IF Len(file_parts) < 2
        THEN [st |-> "err", pkg |-> "", file |-> <<>>, digest |-> None,
              err |-> [kind |-> "InvalidRequest", path |-> file_in_vendor_dir]]
        ELSE LET pkg == file_parts[1]
                 full_file == join(vendor, file_in_vendor_dir)
                 file_in_pkg == <<file_parts[Len(file_parts)]>>
             IN  IF ignore /\ ~exists(f, full_file)
                 THEN [st |-> "ok", pkg |-> pkg, file |-> file_in_pkg,
                       digest |-> None, err |-> NoErr]
                 ELSE IF ~try_digest_ok(f, full_file)
                 THEN [st |-> "err", pkg |-> "", file |-> <<>>, digest |-> None,
                       err |-> [kind |-> "HashIo", path |-> full_file]]
                 ELSE [st |-> "ok", pkg |-> pkg, file |-> file_in_pkg,
                       digest |-> Some(try_digest(f, full_file)), err |-> NoErr]

\* the closure of the parallel map, applied to one requested path
FileResult(f, ignore, file_in_vendor_dir) ==
    LET file_parts == file_in_vendor_dir
    IN  IF Len(file_parts) < 2
        THEN [st |-> "err", pkg |-> "", file |-> <<>>, digest |-> None,
              err |-> [kind |-> "InvalidRequest", path |-> file_in_vendor_dir]]
        ELSE LET pkg == file_parts[1]
                 full_file == join(vendor, file_in_vendor_dir)
                 file_in_pkg == SubSeq(file_parts, 2, Len(file_parts))
             IN  IF ignore /\ ~exists(f, full_file)
                 THEN [st |-> "ok", pkg |-> pkg, file |-> file_in_pkg,
                       digest |-> None, err |-> NoErr]
                 ELSE IF ~try_digest_ok(f, full_file)
                 THEN [st |-> "err", pkg |-> "", file |-> <<>>, digest |-> None,
                       err |-> [kind |-> "HashIo", path |-> full_file]]
                 ELSE [st |-> "ok", pkg |-> pkg, file |-> file_in_pkg,
                       digest |-> Some(try_digest(f, full_file)), err |-> NoErr]

\* variant: the manifest is loaded again for every result
contains_keyNever(map, pkg) == FALSE

\* checksums.contains_key(&pkg)
contains_key(map, pkg) == pkg \in DOMAIN map

\* variant: the consumer of the results starts after the first result
CollectedEarly(res, k) == TRUE

\* the parallel map is consumed once every task but the one that now ends, k,
\* has produced its result: collect and the indexed iteration both join
Collected(res, k) == \A j \in DOMAIN res : j # k => res[j].st # "pending"

\* one task of files_in_vendor_dir.par_iter().map(..): tasks run in any order;
\* collect::<Vec<_>>() returns once every task has produced its result
HashFile(i) ==
    /\ mode = "files" /\ pc = "map"
    /\ i \in 1..Len(files_in_vendor_dir)
    /\ results[i].st = "pending"
    /\ results' = [results EXCEPT ![i] = FileResult(fs, ignore_missing, files_in_vendor_dir[i])]
    /\ pc' = IF Collected(results, i) THEN "merge" ELSE "map"
    /\ UNCHANGED <<fs, disk, writable, entries, mode, files_in_vendor_dir, packages,
                   ignore_missing, idx, checksums, tasks, err, disk0, loads, writes,
                   run, first, rerun, args>>

\* one iteration of `for result in results.collect::<Vec<_>>()`
MergeStep ==
    /\ mode = "files" /\ pc = "merge"
    /\ idx <= Len(results)
    /\ LET result == results[idx]
           pkg == result.pkg
           cksum_file == join(join(vendor, <<pkg>>), <<ChecksumFile>>)
           load == ~contains_key(checksums, pkg)
       IN  IF result.st = "err"
           THEN /\ err' = result.err
                /\ pc' = "done"
                /\ checksums' = <<>>
                /\ UNCHANGED <<idx, loads>>
           ELSE IF load /\ NewErr(disk, cksum_file).kind # "none"
           THEN /\ err' = NewErr(disk, cksum_file)
                /\ pc' = "done"
                /\ checksums' = <<>>
                /\ loads' = Bump(loads, cksum_file)
                /\ UNCHANGED idx
           ELSE LET loaded == IF load
                              THEN [p \in (DOMAIN checksums) \cup {pkg} |->
                                       IF p = pkg THEN New(disk, cksum_file) ELSE checksums[p]]
                              ELSE checksums
                IN  /\ checksums' = [loaded EXCEPT ![pkg].files =
                                        Upsert(loaded[pkg].files, result.file, result.digest)]
                    /\ loads' = IF load THEN Bump(loads, cksum_file) ELSE loads
                    /\ idx' = idx + 1
                    /\ pc' = IF idx = Len(results) THEN "write" ELSE "merge"
                    /\ UNCHANGED err
    /\ UNCHANGED <<fs, disk, writable, entries, mode, files_in_vendor_dir, packages,
                   ignore_missing, results, tasks, disk0, writes, run, first, rerun, args>>

\* variant: the map is walked from its greatest key
FirstPkgLast(map) == CHOOSE p \in DOMAIN map : \A q \in (DOMAIN map) \ {p} : NameLess(q, p)

\* first key of the BTreeMap<OsString, Checksum>
FirstPkg(map) == CHOOSE p \in DOMAIN map : \A q \in (DOMAIN map) \ {p} : NameLess(p, q)

\* one iteration of the loop of write_checksums
WriteStep ==
    /\ mode = "files" /\ pc = "write"
    /\ DOMAIN checksums # {}
    /\ LET pkg == FirstPkg(checksums)
           checksum == checksums[pkg]
           rest == [p \in (DOMAIN checksums) \ {pkg} |-> checksums[p]]
       IN  IF write_ok(writable, checksum)
           THEN /\ disk' = Write(disk, checksum)
                /\ writes' = Bump(writes, checksum.path)
                /\ checksums' = rest
                /\ pc' = IF DOMAIN rest = {} THEN "done" ELSE "write"
                /\ UNCHANGED err
           ELSE /\ err' = [kind |-> "WriteManifest", path |-> checksum.path]
                /\ pc' = "done"
                /\ checksums' = <<>>
                /\ UNCHANGED <<disk, writes>>
    /\ UNCHANGED <<fs, writable, entries, mode, files_in_vendor_dir, packages,
                   ignore_missing, results, idx, tasks, disk0, loads, run, first, rerun, args>>

(***************************************************************************)
(* Mode B: process_packages.  Each element of packages is one task of      *)
(* packages.par_iter().try_for_each(..); the tasks run in parallel.        *)
(***************************************************************************)
NoChecksum == [files |-> <<>>, package |-> None, path |-> <<>>]
IdleTask == [pc |-> "idle", checksum |-> NoChecksum, results |-> <<>>, err |-> NoErr]
PendingKey == [st |-> "pending", digest |-> None, err |-> NoErr]

\* the closure of the inner parallel map, applied to one key of the manifest
KeyResult(f, ignore, path, relative_file) ==
    LET file == join(path, relative_file)
    IN  IF ignore /\ ~exists(f, file)
        THEN [st |-> "ok", digest |-> None, err |-> NoErr]
        ELSE IF ~try_digest_ok(f, file)
        THEN [st |-> "err", digest |-> None, err |-> [kind |-> "HashIo", path |-> file]]
        ELSE [st |-> "ok", digest |-> Some(try_digest(f, file)), err |-> NoErr]

\* variant: the task also hashes the files of the package that are not keys
KeysToHashDiscovers(checksum) == (DOMAIN checksum.files) \cup {<<n>> : n \in Names}

\* the keys the task hashes: checksum.files.to_owned().into_keys()
KeysToHash(checksum) == DOMAIN checksum.files

\* Checksum::new at the start of a task
TaskLoad(t) ==
    /\ mode \in {"packages", "all"} /\ pc = "tasks"
    /\ t \in 1..Len(packages)
    /\ tasks[t].pc = "idle"
    /\ LET pkg == packages[t]
           path == join(vendor, <<pkg>>)
           cksum_file == join(path, <<ChecksumFile>>)
       IN  /\ loads' = Bump(loads, cksum_file)
           /\ IF NewErr(disk, cksum_file).kind # "none"
              THEN tasks' = [tasks EXCEPT ![t].pc = "failed",
                                          ![t].err = NewErr(disk, cksum_file)]
              ELSE LET checksum == New(disk, cksum_file)
                   IN  tasks' = [tasks EXCEPT
                           ![t].pc = IF KeysToHash(checksum) = {} THEN "merge" ELSE "map",
                           ![t].checksum = checksum,
                           ![t].results = [k \in KeysToHash(checksum) |-> PendingKey]]
    /\ UNCHANGED <<fs, disk, writable, entries, mode, files_in_vendor_dir, packages,
                   ignore_missing, pc, results, idx, checksums, err, disk0, writes,
                   run, first, rerun, args>>

\* one task of the inner par_iter().map(..) of task t
TaskHash(t, k) ==
    /\ mode \in {"packages", "all"} /\ pc = "tasks"
    /\ t \in 1..Len(packages)
    /\ tasks[t].pc = "map"
    /\ k \in DOMAIN tasks[t].results
    /\ tasks[t].results[k].st = "pending"
    /\ LET path == join(vendor, <<packages[t]>>)
           done == Collected(tasks[t].results, k)
       IN  tasks' = [tasks EXCEPT
               ![t].results[k] = KeyResult(fs, ignore_missing, path, k),
               ![t].pc = IF done THEN "merge" ELSE "map"]
    /\ UNCHANGED <<fs, disk, writable, entries, mode, files_in_vendor_dir, packages,
                   ignore_missing, pc, results, idx, checksums, err, disk0, loads, writes,
                   run, first, rerun, args>>

\* variant: the loop stops after the first result
MergeAllFirst(map, res, keys) ==
    IF keys = <<>> THEN map ELSE Upsert(map, Head(keys), res[Head(keys)].digest)

RECURSIVE MergeAll(_, _, _)
\* `for result in results`: the results are in the order of the keys
MergeAll(map, res, keys) ==
    IF keys = <<>> THEN map
    ELSE MergeAll(Upsert(map, Head(keys), res[Head(keys)].digest), res, Tail(keys))

\* variant: a failed hash is skipped and the merge goes on
FirstKeyErrSkips(res) == NoErr

\* the error `result?` returns: that of the first failed result, in key order
FirstKeyErr(res) ==
    LET ks == SortedKeys(DOMAIN res)
        bad == {j \in 1..Len(ks) : res[ks[j]].st = "err"}
    IN  IF bad = {} THEN NoErr
        ELSE res[ks[CHOOSE j \in bad : \A m \in bad : j <= m]].err

\* the merge loop of task t and its checksum.write()
TaskMergeWrite(t) ==
    /\ mode \in {"packages", "all"} /\ pc = "tasks"
    /\ t \in 1..Len(packages)
    /\ tasks[t].pc = "merge"
    /\ LET res == tasks[t].results
           merged == [tasks[t].checksum EXCEPT
                         !.files = MergeAll(@, res, SortedKeys(DOMAIN res))]
       IN  IF FirstKeyErr(res).kind # "none"
           THEN /\ tasks' = [tasks EXCEPT ![t].pc = "failed", ![t].err = FirstKeyErr(res)]
                /\ UNCHANGED <<disk, writes>>
           ELSE IF ~write_ok(writable, merged)
           THEN /\ tasks' = [tasks EXCEPT ![t].pc = "failed", ![t].checksum = merged,
                                          ![t].err = [kind |-> "WriteManifest",
                                                      path |-> merged.path]]
                /\ UNCHANGED <<disk, writes>>
           ELSE /\ disk' = Write(disk, merged)
                /\ writes' = Bump(writes, merged.path)
                /\ tasks' = [tasks EXCEPT ![t].pc = "done", ![t].checksum = merged]
    /\ UNCHANGED <<fs, writable, entries, mode, files_in_vendor_dir, packages,
                   ignore_missing, pc, results, idx, checksums, err, disk0, loads,
                   run, first, rerun, args>>

\* try_for_each stops handing out elements once an error has been seen:
\* a task that has not started may never start
TaskSkip(t) ==
    /\ mode \in {"packages", "all"} /\ pc = "tasks"
    /\ t \in 1..Len(packages)
    /\ tasks[t].pc = "idle"
    /\ \E u \in 1..Len(packages) : tasks[u].pc = "failed"
    /\ tasks' = [tasks EXCEPT ![t].pc = "skipped"]
    /\ UNCHANGED <<fs, disk, writable, entries, mode, files_in_vendor_dir, packages,
                   ignore_missing, pc, results, idx, checksums, err, disk0, loads, writes,
                   run, first, rerun, args>>

\* try_for_each returns: Ok(()) if no task failed, else the error of one that did
JoinTasks ==
    /\ mode \in {"packages", "all"} /\ pc = "tasks"
    /\ \A t \in 1..Len(packages) : tasks[t].pc \in {"done", "failed", "skipped"}
    /\ IF \E t \in 1..Len(packages) : tasks[t].pc = "failed"
       THEN \E t \in 1..Len(packages) : tasks[t].pc = "failed" /\ err' = tasks[t].err
       ELSE err' = NoErr
    /\ pc' = "done"
    /\ UNCHANGED <<fs, disk, writable, entries, mode, files_in_vendor_dir, packages,
                   ignore_missing, results, idx, checksums, tasks, disk0, loads, writes,
                   run, first, rerun, args>>

\* fs::read_dir(vendor)
read_dir_ok(f) == f[vendor] \in {"dir", "dir_entry_err"}

\* the names that filter_map keeps: an entry that read_dir yields as Err is
\* dropped by .ok(); "dir_entry_err" is a directory for which one entry is Err
listed(f, ents) ==
    IF f[vendor] = "dir_entry_err" THEN {ents \ {e} : e \in ents} ELSE {ents}

\* get_packages, called by main for --all: the names of the entries of the
\* vendor directory, in the order read_dir yields them
GetPackages ==
    /\ mode = "all" /\ pc = "list"
    /\ IF ~read_dir_ok(fs)
       THEN /\ err' = [kind |-> "ReadVendor", path |-> vendor]
            /\ pc' = "done"
            /\ UNCHANGED <<packages, tasks>>
       ELSE \E names \in listed(fs, entries) :
            \E order \in [1..Cardinality(names) -> names] :
            /\ \A e \in names : \E k \in DOMAIN order : order[k] = e
            /\ packages' = order
            /\ tasks' = [t \in 1..Len(order) |-> IdleTask]
            /\ pc' = "tasks"
            /\ UNCHANGED err
    /\ UNCHANGED <<fs, disk, writable, entries, mode, files_in_vendor_dir,
                   ignore_missing, results, idx, checksums, disk0, loads, writes,
                   run, first, rerun, args>>

(***************************************************************************)
(* main: the request shape that drives the run.  clap admits exactly one   *)
(* of --files, --packages, --all and --completion (group Files).           *)
(***************************************************************************)
\* variant: the test of the all flag is negated
DispatchNotAll(files, all) ==
    IF files # <<>> THEN "files" ELSE IF ~all THEN "all" ELSE "packages"

\* the if / else if / else of the closure given to thread_pool.install
Dispatch(files, all) ==
    IF files # <<>> THEN "files" ELSE IF all THEN "all" ELSE "packages"

\* main up to the call of the mode: print_completions writes the completion
\* script to stdout when --completion is given, and main goes on
Main ==
    /\ pc = "main"
    /\ mode' = Dispatch(files_in_vendor_dir, args.all)
    /\ pc' = CASE mode' = "files" -> "map" [] mode' = "all" -> "list" [] OTHER -> "tasks"
    /\ results' = IF mode' = "files"
                  THEN [k \in 1..Len(files_in_vendor_dir) |-> Pending] ELSE <<>>
    /\ tasks' = IF mode' = "packages" THEN [t \in 1..Len(packages) |-> IdleTask] ELSE <<>>
    /\ UNCHANGED <<fs, disk, writable, entries, files_in_vendor_dir, packages,
                   ignore_missing, idx, checksums, err, disk0, loads, writes,
                   run, first, rerun, args>>

(***************************************************************************)
(* Round trip of the manifest store: Checksum::new, Checksum::write with   *)
(* no mutation in between, Checksum::new again.                            *)
(***************************************************************************)
RtLoad ==
    /\ mode = "roundtrip" /\ pc = "load"
    /\ LET cksum_file == ManifestPath(packages[1])
       IN  /\ loads' = Bump(loads, cksum_file)
           /\ IF NewErr(disk, cksum_file).kind # "none"
              THEN /\ err' = NewErr(disk, cksum_file)
                   /\ pc' = "done"
                   /\ UNCHANGED checksums
              ELSE /\ checksums' = [p \in {packages[1]} |-> New(disk, cksum_file)]
                   /\ pc' = "write"
                   /\ UNCHANGED err
    /\ UNCHANGED <<fs, disk, writable, entries, mode, files_in_vendor_dir, packages,
                   ignore_missing, results, idx, tasks, disk0, writes, run, first, rerun, args>>

RtWrite ==
    /\ mode = "roundtrip" /\ pc = "write"
    /\ LET checksum == checksums[packages[1]]
       IN  IF write_ok(writable, checksum)
           THEN /\ disk' = Write(disk, checksum)
                /\ writes' = Bump(writes, checksum.path)
                /\ pc' = "reload"
                /\ UNCHANGED err
           ELSE /\ err' = [kind |-> "WriteManifest", path |-> checksum.path]
                /\ pc' = "done"
                /\ UNCHANGED <<disk, writes>>
    /\ UNCHANGED <<fs, writable, entries, mode, files_in_vendor_dir, packages,
                   ignore_missing, results, idx, checksums, tasks, disk0, loads,
                   run, first, rerun, args>>

RtReload ==
    /\ mode = "roundtrip" /\ pc = "reload"
    /\ LET cksum_file == ManifestPath(packages[1])
       IN  /\ loads' = Bump(loads, cksum_file)
           /\ IF NewErr(disk, cksum_file).kind # "none"
              THEN /\ err' = NewErr(disk, cksum_file)
                   /\ UNCHANGED results
              ELSE /\ results' = <<New(disk, cksum_file)>>
                   /\ UNCHANGED err
    /\ pc' = "done"
    /\ UNCHANGED <<fs, disk, writable, entries, mode, files_in_vendor_dir, packages,
                   ignore_missing, idx, checksums, tasks, disk0, writes, run, first, rerun, args>>

(***************************************************************************)
(* main: a second invocation on the same vendor directory.                 *)
(***************************************************************************)
Perms(n) == {f \in [1..n -> 1..n] : \A k \in 1..n : \E j \in 1..n : f[j] = k}

StartFiles(req) ==
    /\ files_in_vendor_dir' = req
    /\ results' = [k \in 1..Len(req) |-> Pending]
    /\ idx' = 1
    /\ checksums' = <<>>
    /\ err' = NoErr
    /\ pc' = "map"
    /\ loads' = <<>>
    /\ writes' = <<>>

\* the same request is run again on what the first invocation left
RunAgain ==
    /\ mode = "files" /\ pc = "done" /\ run = 1
    /\ err.kind = "none"
    /\ run' = 2 /\ rerun' = "same"
    /\ first' = [disk |-> disk, err |-> err]
    /\ disk0' = disk
    /\ StartFiles(files_in_vendor_dir)
    /\ UNCHANGED <<fs, disk, writable, entries, mode, packages, ignore_missing, tasks, args>>

\* the files of the request are given in another order, on the file-system
\* state the first invocation started from
RunPermuted ==
    /\ mode = "files" /\ pc = "done" /\ run = 1
    /\ \E perm \in Perms(Len(files_in_vendor_dir)) :
          /\ \E k \in DOMAIN perm : perm[k] # k
          /\ StartFiles([k \in 1..Len(files_in_vendor_dir) |-> files_in_vendor_dir[perm[k]]])
    /\ run' = 2 /\ rerun' = "permuted"
    /\ first' = [disk |-> disk, err |-> err]
    /\ disk' = disk0
    /\ UNCHANGED <<fs, writable, entries, mode, packages, ignore_missing, tasks, disk0, args>>

(***************************************************************************)
(* Initial states: the vendor directory and the request.                   *)
(***************************************************************************)
VendoredFiles == {<<"p1", "a">>, <<"p1", "b">>, <<"p2", "a">>}
ReqPaths == VendoredFiles \cup {<<"p1">>}

\* content of a vendored file now; the manifests may record its older content "c0"
ContentOf(v) == IF v[Len(v)] = "a" THEN "c1" ELSE "c2"
Stale == Digest("c0")

Faults == {<<"dir", v>> : v \in VendoredFiles}
          \cup {<<"unlistable", <<>>>>, <<"entry_err", <<>>>>}
          \cup {<<k, <<pkg>>>> : k \in {"missing", "garbage", "readonly"}, pkg \in Pkgs}
FaultSets == {F \in SUBSET Faults : Cardinality(F) <= MaxFaults}

InitialPackage(pkg) == IF pkg = "p1" THEN Some("p") ELSE None
InitialExtra(pkg) == IF pkg = "p1" THEN {"x"} ELSE {}

Relative(full) == SubSeq(full, Len(vendor) + 1, Len(full))
PkgOfManifest(path) == path[Len(vendor) + 1]

InitFs(present, F) ==
    [full \in {join(vendor, v) : v \in VendoredFiles}
               \cup {join(vendor, <<pkg>>) : pkg \in Pkgs} \cup {vendor} |->
        IF full = vendor
        THEN (IF <<"unlistable", <<>>>> \in F THEN "unlistable"
              ELSE IF <<"entry_err", <<>>>> \in F THEN "dir_entry_err" ELSE "dir")
        ELSE IF Len(Relative(full)) = 1 THEN "dir"
        ELSE IF <<"dir", Relative(full)>> \in F THEN "dir"
        ELSE IF Relative(full) \in present THEN ContentOf(Relative(full))
        ELSE "absent"]

InitDoc(pkg, tracked, F) ==
    IF <<"missing", <<pkg>>>> \in F THEN NoDoc("missing")
    ELSE IF <<"garbage", <<pkg>>>> \in F THEN NoDoc("garbage")
    ELSE [kind |-> "json",
          files |-> ToEntries([k \in {Tail(v) : v \in {w \in tracked : w[1] = pkg}} |-> Stale]),
          package |-> InitialPackage(pkg),
          extra |-> InitialExtra(pkg)]

InitEnv ==
    \E present \in SUBSET VendoredFiles, tracked \in SUBSET VendoredFiles, F \in FaultSets :
        /\ fs = InitFs(present, F)
        /\ disk = [path \in {ManifestPath(pkg) : pkg \in Pkgs} |->
                      InitDoc(PkgOfManifest(path), tracked, F)]
        /\ writable = {ManifestPath(pkg) : pkg \in {q \in Pkgs : <<"readonly", <<q>>>> \notin F}}

InitHistory ==
    /\ disk0 = disk
    /\ loads = <<>>
    /\ writes = <<>>
    /\ run = 1
    /\ first = [disk |-> <<>>, err |-> NoErr]
    /\ rerun = "none"

Lists(S) == UNION {[1..n -> S] : n \in 1..MaxReq}

InitFiles ==
    /\ InitEnv
    /\ entries = Pkgs
    /\ mode = "files"
    /\ args = [all |-> FALSE, completion |-> None]
    /\ files_in_vendor_dir \in Lists(ReqPaths)
    /\ packages = <<>>
    /\ ignore_missing \in BOOLEAN
    /\ pc = "map"
    /\ results = [k \in 1..Len(files_in_vendor_dir) |-> Pending]
    /\ idx = 1
    /\ checksums = <<>>
    /\ tasks = <<>>
    /\ err = NoErr
    /\ InitHistory

InitPackages ==
    /\ InitEnv
    /\ entries = Pkgs
    /\ mode = "packages"
    /\ args = [all |-> FALSE, completion |-> None]
    /\ files_in_vendor_dir = <<>>
    /\ packages \in Lists(Pkgs)
    /\ ignore_missing \in BOOLEAN
    /\ pc = "tasks"
    /\ results = <<>>
    /\ idx = 1
    /\ checksums = <<>>
    /\ tasks = [t \in 1..Len(packages) |-> IdleTask]
    /\ err = NoErr
    /\ InitHistory

InitAll ==
    /\ InitEnv
    /\ entries \in {Pkgs, Pkgs \cup {"stray"}}
    /\ mode = "all"
    /\ args = [all |-> TRUE, completion |-> None]
    /\ files_in_vendor_dir = <<>>
    /\ packages = <<>>
    /\ ignore_missing \in BOOLEAN
    /\ pc = "list"
    /\ results = <<>>
    /\ idx = 1
    /\ checksums = <<>>
    /\ tasks = <<>>
    /\ err = NoErr
    /\ InitHistory

Init == InitFiles \/ InitPackages \/ InitAll

\* the JSON documents a manifest file may hold at the start of a round trip
DocKeys == {<<n>> : n \in Names}
DocEntries == {<<k, h>> : k \in DocKeys, h \in {Digest("c0"), Digest("c1")}}
Docs ==
    {[kind |-> "json", files |-> es, package |-> pk, extra |-> ex] :
        es \in UNION {[1..n -> DocEntries] : n \in 0..MaxEntries},
        pk \in {None, Some("p")},
        ex \in SUBSET {"x"}}

InitRoundTrip ==
    /\ fs = InitFs(VendoredFiles, {})
    /\ \E pkg \in Pkgs, doc \in Docs :
          /\ packages = <<pkg>>
          /\ disk = [path \in {ManifestPath(q) : q \in Pkgs} |->
                        IF path = ManifestPath(pkg) THEN doc
                        ELSE InitDoc(PkgOfManifest(path), VendoredFiles, {})]
    /\ writable = {ManifestPath(q) : q \in Pkgs}
    /\ entries = Pkgs
    /\ mode = "roundtrip"
    /\ args = [all |-> FALSE, completion |-> None]
    /\ files_in_vendor_dir = <<>>
    /\ ignore_missing = FALSE
    /\ pc = "load"
    /\ results = <<>>
    /\ idx = 1
    /\ checksums = <<>>
    /\ tasks = <<>>
    /\ err = NoErr
    /\ InitHistory

NextRoundTrip == RtLoad \/ RtWrite \/ RtReload

SpecRoundTrip == InitRoundTrip /\ [][NextRoundTrip]_vars

Next ==
    \/ \E i \in 1..MaxReq + 1 : HashFile(i)
    \/ MergeStep
    \/ WriteStep
    \/ GetPackages
    \/ \E t \in 1..MaxReq + 1 : TaskLoad(t)
    \/ \E t \in 1..MaxReq + 1, k \in {Tail(v) : v \in VendoredFiles} : TaskHash(t, k)
    \/ \E t \in 1..MaxReq + 1 : TaskMergeWrite(t)
    \/ \E t \in 1..MaxReq + 1 : TaskSkip(t)
    \/ JoinTasks
    \/ RunAgain
    \/ RunPermuted

Spec == Init /\ [][Next]_vars

\* the command lines clap accepts: exactly one member of the group is given
InitMain ==
    /\ InitEnv
    /\ entries \in {Pkgs, Pkgs \cup {"stray"}}
    /\ mode = "cli"
    /\ \E given \in {"files", "packages", "all", "completion"} :
          /\ files_in_vendor_dir \in (IF given = "files" THEN Lists(ReqPaths) ELSE {<<>>})
          /\ packages \in (IF given = "packages" THEN Lists(Pkgs) ELSE {<<>>})
          /\ args = [all |-> (given = "all"),
                     completion |-> IF given = "completion" THEN Some("bash") ELSE None]
    /\ ignore_missing \in BOOLEAN
    /\ pc = "main"
    /\ results = <<>>
    /\ idx = 1
    /\ checksums = <<>>
    /\ tasks = <<>>
    /\ err = NoErr
    /\ InitHistory

NextMain ==
    \/ Main
    \/ \E i \in 1..MaxReq + 1 : HashFile(i)
    \/ MergeStep
    \/ WriteStep
    \/ GetPackages
    \/ \E t \in 1..MaxReq + 1 : TaskLoad(t)
    \/ \E t \in 1..MaxReq + 1, k \in {Tail(v) : v \in VendoredFiles} : TaskHash(t, k)
    \/ \E t \in 1..MaxReq + 1 : TaskMergeWrite(t)
    \/ \E t \in 1..MaxReq + 1 : TaskSkip(t)
    \/ JoinTasks

SpecMain == InitMain /\ [][NextMain]_vars

(***************************************************************************)
(* Mode A on one requested path of up to MaxSegs components: the split of  *)
(* the path into package and path in the package.                          *)
(***************************************************************************)
SplitSegs == {"p1", "a", "b"}
SplitPaths == UNION {[1..n -> SplitSegs] : n \in 1..MaxSegs}

IsPrefix(p, q) == Len(p) < Len(q) /\ SubSeq(q, 1, Len(p)) = p

\* the requested path r is in state s; the directories above it exist; every
\* other file directly in a package directory exists with another content
SplitFs(r, s) ==
    [full \in {join(vendor, p) : p \in SplitPaths} \cup {vendor} |->
        IF full = join(vendor, r) /\ Len(r) >= 2 THEN s
        ELSE IF full = vendor \/ IsPrefix(full, join(vendor, r)) \/ Len(Relative(full)) = 1
        THEN "dir"
        ELSE IF Len(Relative(full)) = 2 THEN "c2"
        ELSE "absent"]

InitSplit ==
    /\ \E r \in SplitPaths, s \in {"absent", "dir", "c1"} :
          /\ files_in_vendor_dir = <<r>>
          /\ fs = SplitFs(r, s)
    /\ \E tracked \in {{}, VendoredFiles} :
          disk = [path \in {ManifestPath(pkg) : pkg \in Pkgs} |->
                     InitDoc(PkgOfManifest(path), tracked, {})]
    /\ writable = {ManifestPath(pkg) : pkg \in Pkgs}
    /\ entries = Pkgs
    /\ mode = "files"
    /\ args = [all |-> FALSE, completion |-> None]
    /\ packages = <<>>
    /\ ignore_missing \in BOOLEAN
    /\ pc = "map"
    /\ results = <<Pending>>
    /\ idx = 1
    /\ checksums = <<>>
    /\ tasks = <<>>
    /\ err = NoErr
    /\ InitHistory

NextSplit == HashFile(1) \/ MergeStep \/ WriteStep

SpecSplit == InitSplit /\ [][NextSplit]_vars

(***************************************************************************)
(* Vocabulary of the properties.                                           *)
(***************************************************************************)
Done == pc = "done"
Ok == Done /\ err.kind = "none"

\* the keys of the "files" object of a manifest file, and the hashes of a key
DocKeySet(doc) == {doc.files[j][1] : j \in 1..Len(doc.files)}
DocHashes(doc, k) == {doc.files[j][2] : j \in {m \in 1..Len(doc.files) : doc.files[m][1] = k}}

Requested == {files_in_vendor_dir[k] : k \in 1..Len(files_in_vendor_dir)}
RequestedPkgs == {packages[k] : k \in 1..Len(packages)}
Written == DOMAIN writes

\* C1: after a successful Mode A run, every requested path pkg/p whose file
\* exists is a key of the manifest file of pkg, mapped to the digest of the
\* file's content, and the package field of that manifest is its pre-run value.
C1_ModeAUpserts ==
    (mode = "files" /\ Ok) =>
        \A p \in Requested :
            exists(fs, join(vendor, p)) =>
                /\ DocHashes(disk[ManifestPath(p[1])], Tail(p)) = {Digest(fs[join(vendor, p)])}
                /\ disk[ManifestPath(p[1])].package = disk0[ManifestPath(p[1])].package

\* a successful first run that inserted one key and overwrote the stale hash of another
C1_Witness ==
    /\ mode = "files" /\ Ok /\ run = 1
    /\ \E p \in Requested, q \in Requested :
          /\ exists(fs, join(vendor, p)) /\ exists(fs, join(vendor, q))
          /\ Tail(p) \notin DocKeySet(disk0[ManifestPath(p[1])])
          /\ Tail(q) \in DocKeySet(disk0[ManifestPath(q[1])])
          /\ Digest(fs[join(vendor, q)]) \notin DocHashes(disk0[ManifestPath(q[1])], Tail(q))
          /\ disk0[ManifestPath(q[1])].package # None

\* C2: after a successful Mode B run, the manifest file of every requested
\* package has no key it did not have before the run, every key it has maps to
\* the digest of its file, and a key is gone only if ignore_missing is set and
\* its file is absent.
C2_ModeBKeys ==
    (mode \in {"packages", "all"} /\ Ok) =>
        \A pkg \in RequestedPkgs :
            LET mp == ManifestPath(pkg)
                file(k) == join(join(vendor, <<pkg>>), k)
            IN  /\ DocKeySet(disk[mp]) \subseteq DocKeySet(disk0[mp])
                /\ \A k \in DocKeySet(disk[mp]) :
                      /\ try_digest_ok(fs, file(k))
                      /\ DocHashes(disk[mp], k) = {Digest(fs[file(k)])}
                /\ \A k \in DocKeySet(disk0[mp]) \ DocKeySet(disk[mp]) :
                      ignore_missing /\ ~exists(fs, file(k))

\* a successful "all" run on a vendor directory with an untracked file, a
\* rehashed key and a dropped key
C2_Witness ==
    /\ mode = "all" /\ Ok
    /\ \E v \in VendoredFiles :
          /\ exists(fs, join(vendor, v))
          /\ Tail(v) \notin DocKeySet(disk0[ManifestPath(v[1])])
    /\ \E v \in VendoredFiles :
          /\ Tail(v) \in DocKeySet(disk[ManifestPath(v[1])])
          /\ DocHashes(disk[ManifestPath(v[1])], Tail(v))
                # DocHashes(disk0[ManifestPath(v[1])], Tail(v))
    /\ \E v \in VendoredFiles :
          Tail(v) \in DocKeySet(disk0[ManifestPath(v[1])]) \ DocKeySet(disk[ManifestPath(v[1])])

\* the request has no cause of failure other than absent files
NoOtherFault ==
    \A p \in Requested :
        /\ Len(p) >= 2
        /\ fs[join(vendor, p)] # "dir"
        /\ disk0[ManifestPath(p[1])].kind = "json"
        /\ ManifestPath(p[1]) \in writable

AbsentRequested == {p \in Requested : Len(p) >= 2 /\ ~exists(fs, join(vendor, p))}

\* C3: Mode A and a requested path pkg/p whose file is absent.  With
\* ignore_missing the absent file is no failure (the run is never failed by the
\* hash of an absent file, and succeeds when nothing else is wrong), p is not a
\* key of the manifest file of pkg after a successful run, and the files of
\* that manifest are unchanged when all requested paths of pkg are absent files
\* that were not keys.  Without ignore_missing the run fails and no manifest is
\* written; when nothing else is wrong the error is the I/O error of the hash
\* of an absent requested file.
C3_ModeAMissing ==
    (mode = "files" /\ Done) =>
        /\ ignore_missing =>
              /\ ~(err.kind = "HashIo" /\ ~exists(fs, err.path))
              /\ NoOtherFault => Ok
              /\ Ok => \A p \in AbsentRequested :
                          LET mp == ManifestPath(p[1])
                          IN  /\ Tail(p) \notin DocKeySet(disk[mp])
                              /\ (\A q \in Requested :
                                      q[1] = p[1] => /\ q \in AbsentRequested
                                                     /\ Tail(q) \notin DocKeySet(disk0[mp]))
                                  => FromEntries(disk[mp].files) = FromEntries(disk0[mp].files)
        /\ (~ignore_missing /\ AbsentRequested # {}) =>
              /\ err.kind # "none"
              /\ Written = {} /\ disk = disk0
              /\ NoOtherFault => /\ err.kind = "HashIo"
                                  /\ \E p \in AbsentRequested : err.path = join(vendor, p)

\* a successful run with ignore_missing that removed the key of an absent file
C3_Witness ==
    /\ mode = "files" /\ Ok /\ ignore_missing
    /\ \E p \in AbsentRequested :
          /\ Tail(p) \in DocKeySet(disk0[ManifestPath(p[1])])
          /\ Tail(p) \notin DocKeySet(disk[ManifestPath(p[1])])

\* some hash computation of the run has failed
HashFailed ==
    \/ mode = "files" /\ \E k \in DOMAIN results : results[k].err.kind = "HashIo"
    \/ /\ mode \in {"packages", "all"}
       /\ \E t \in DOMAIN tasks : \E k \in DOMAIN tasks[t].results :
             tasks[t].results[k].st = "err"

\* C4 as stated: in both modes, once a hash computation of the run has
\* failed, no manifest of any package is persisted in that run.
C4_Original == HashFailed => (Written = {} /\ disk = disk0)

\* C4, amended: in Mode A a manifest is persisted only after every hash
\* computation of the run has been collected without error, so a failed hash
\* leaves every manifest unwritten; in Mode B a failed hash of a file of a
\* package leaves the manifest of that package unwritten, and a task writes
\* only after all its hash computations succeeded.
C4_FailedHashNoWrite ==
    /\ mode = "files" =>
          /\ HashFailed => (Written = {} /\ disk = disk0)
          /\ Written # {} => \A k \in DOMAIN results : results[k].st = "ok"
    /\ mode \in {"packages", "all"} =>
          \A t \in DOMAIN tasks :
              /\ (\E k \in DOMAIN tasks[t].results : tasks[t].results[k].st = "err") =>
                    /\ ManifestPath(packages[t]) \notin Written
                    /\ disk[ManifestPath(packages[t])] = disk0[ManifestPath(packages[t])]
                    /\ tasks[t].pc # "done"
              /\ tasks[t].pc = "done" =>
                    \A k \in DOMAIN tasks[t].results : tasks[t].results[k].st = "ok"

\* a Mode B run in which a hash of one package failed and the manifest of
\* another package was persisted
C4_Witness ==
    /\ mode \in {"packages", "all"} /\ Done /\ err.kind = "HashIo"
    /\ HashFailed
    /\ Written # {}

\* the manifests the request touches
Touched ==
    IF mode = "files" THEN {ManifestPath(p[1]) : p \in {q \in Requested : Len(q) >= 2}}
    ELSE {ManifestPath(pkg) : pkg \in RequestedPkgs}

\* C5: in a successful run of either mode, every manifest the request touches
\* is loaded once and written exactly once, also when the request names a
\* package or the files of a package several times.
C5_Original ==
    (mode \in {"files", "packages", "all"} /\ Ok) =>
        \A mp \in Touched :
            /\ mp \in DOMAIN loads /\ loads[mp] = 1
            /\ mp \in DOMAIN writes /\ writes[mp] = 1

StrictlyAscending(es) ==
    \A j \in 1..Len(es) - 1 : PathLess(es[j][1], es[j + 1][1])

\* C6: when a Mode A request is run again with its files in another order,
\* from the same file-system state, the manifest files it leaves are those the
\* first order left; every manifest a run writes has its keys in ascending order.
C6_OrderIndependent ==
    mode = "files" =>
        /\ (run = 2 /\ rerun = "permuted" /\ Done) => disk = first.disk
        /\ \A mp \in Written : StrictlyAscending(disk[mp].files)

\* a successful run of a request of two different paths of one package,
\* given in the other order, that wrote a manifest of two keys
C6_Witness ==
    /\ mode = "files" /\ run = 2 /\ rerun = "permuted" /\ Ok
    /\ Len(files_in_vendor_dir) >= 2
    /\ files_in_vendor_dir[1] # files_in_vendor_dir[2]
    /\ files_in_vendor_dir[1][1] = files_in_vendor_dir[2][1]
    /\ \E mp \in Written : Len(disk[mp].files) >= 2 /\ disk[mp] # disk0[mp]

\* C7: a Mode A request run a second time, with the files unchanged, succeeds
\* and leaves every manifest file as the first run left it.
C7_Idempotent ==
    (mode = "files" /\ run = 2 /\ rerun = "same" /\ Done) =>
        /\ err.kind = "none"
        /\ disk = first.disk

\* a second run of the same request that wrote a manifest with entries
C7_Witness ==
    /\ mode = "files" /\ run = 2 /\ rerun = "same" /\ Ok
    /\ \E mp \in Written : Len(disk[mp].files) >= 1

\* C8: a manifest loaded, written without mutation and loaded again has the
\* files mapping and the package value of the first load, which are those of
\* the file, and the write went to the path the manifest was loaded from and
\* to no other.
C8_RoundTrip ==
    (mode = "roundtrip" /\ Done) =>
        LET pkg == packages[1]
            loaded == checksums[pkg]
            reloaded == results[1]
        IN  /\ err.kind = "none"
            /\ reloaded.files = loaded.files
            /\ reloaded.package = loaded.package
            /\ loaded.files = FromEntries(disk0[ManifestPath(pkg)].files)
            /\ loaded.package = disk0[ManifestPath(pkg)].package
            /\ loaded.path = ManifestPath(pkg)
            /\ Written = {loaded.path}
            /\ \A mp \in DOMAIN disk : mp # loaded.path => disk[mp] = disk0[mp]

\* a finished round trip of a manifest with a package and a files object
\* that the write rewrote
C8_Witness ==
    /\ mode = "roundtrip" /\ Done
    /\ disk0[ManifestPath(packages[1])].package # None
    /\ disk[ManifestPath(packages[1])].files # disk0[ManifestPath(packages[1])].files

\* C9: a top-level field of a manifest file other than files and package is
\* in the file, with its value, after a successful run that wrote the manifest.
C9_Original ==
    (mode \in {"files", "packages", "all"} /\ Ok) =>
        \A mp \in Written : disk[mp].extra = disk0[mp].extra

Bare == {k \in 1..Len(files_in_vendor_dir) : Len(files_in_vendor_dir[k]) < 2}
FirstBare == CHOOSE k \in Bare : \A j \in Bare : k <= j

\* a result before the first bare path fails, or its manifest cannot be loaded
FailsBeforeBare ==
    \E j \in 1..FirstBare - 1 :
        \/ results[j].st = "err"
        \/ NewErr(disk0, ManifestPath(files_in_vendor_dir[j][1])).kind # "none"

\* C10 as stated: a Mode A run with a bare package name among its paths fails
\* with the invalid-request error and writes no manifest, wherever the bare
\* path is and whatever the other paths are.
C10_Original ==
    (mode = "files" /\ Bare # {} /\ Done) =>
        /\ err.kind = "InvalidRequest"
        /\ Written = {} /\ disk = disk0

\* C10, amended: a Mode A run with a bare package name among its paths
\* writes no manifest and fails, wherever the bare path is and whatever the
\* other paths are; the error is the invalid-request error of the first bare
\* path, unless a path listed before it fails to hash or the manifest of its
\* package fails to load, and then the error is that earlier failure.
C10_BarePathFails ==
    (mode = "files" /\ Bare # {}) =>
        /\ Written = {} /\ disk = disk0
        /\ Done =>
              IF FailsBeforeBare
              THEN err.kind \in {"HashIo", "ReadManifest", "ParseManifest"}
              ELSE err = [kind |-> "InvalidRequest", path |-> files_in_vendor_dir[FirstBare]]

\* a failed run whose second path is bare and whose first path is a file
\* that was hashed, with a manifest that was loaded
C10_Witness ==
    /\ mode = "files" /\ Done
    /\ Bare = {2}
    /\ results[1].st = "ok" /\ results[1].digest # None
    /\ loads # <<>>
    /\ err.kind = "InvalidRequest"

\* C11: for a requested path of at least 2 components, the result of the
\* split is the first component as package and the other components as path
\* in the package, so that package followed by path in package is the
\* requested path; the file hashed (or found absent) is vendor followed by
\* the requested path, the manifest loaded is vendor/package/.cargo-checksum.json,
\* and that manifest has the path in the package as key after a successful
\* run exactly if the file was hashed.
C11_SplitRejoin ==
    mode = "files" =>
        \A k \in DOMAIN results :
            LET path == files_in_vendor_dir[k]
                r == results[k]
                manifest == <<"vendor", path[1], ".cargo-checksum.json">>
            IN  (Len(path) >= 2 /\ r.st # "pending") =>
                  /\ r.st = "ok" =>
                        /\ r.pkg = path[1]
                        /\ <<r.pkg>> \o r.file = path
                        /\ r.digest # None =>
                              /\ fs[<<"vendor">> \o path] \in Contents
                              /\ r.digest = <<Digest(fs[<<"vendor">> \o path])>>
                        /\ r.digest = None => fs[<<"vendor">> \o path] = "absent"
                        /\ \A mp \in DOMAIN loads :
                              \E j \in DOMAIN results :
                                  mp = <<"vendor", files_in_vendor_dir[j][1],
                                         ".cargo-checksum.json">>
                        /\ Ok => /\ manifest \in DOMAIN loads
                                 /\ manifest \in Written
                                 /\ (r.digest # None) =
                                       (SubSeq(path, 2, Len(path)) \in DocKeySet(disk[manifest]))
                  /\ r.st = "err" => r.err = [kind |-> "HashIo", path |-> <<"vendor">> \o path]

\* a successful run on a path of three components whose file was hashed
C11_Witness ==
    /\ mode = "files" /\ Ok
    /\ Len(files_in_vendor_dir[1]) = 3
    /\ results[1].digest # None
    /\ Len(results[1].file) = 2
    /\ Written # {}

\* some step of the run has failed: the split or the hash of a requested
\* path, the read or parse of a manifest, the write of a manifest, a task of
\* Mode B, or the listing of the vendor directory
StepFailed ==
    \/ /\ mode = "files"
       /\ \/ \E k \in DOMAIN results : results[k].st = "err"
          \/ \E mp \in DOMAIN loads : NewErr(disk, mp).kind # "none"
          \/ /\ \A k \in DOMAIN results : results[k].st = "ok"
             /\ \E mp \in DOMAIN loads : mp \notin writable
    \/ /\ mode \in {"packages", "all"}
       /\ \E t \in DOMAIN tasks : tasks[t].pc = "failed"
    \/ mode = "all" /\ fs[vendor] # "dir"

\* C12: a run ends in success if and only if no step failed: not a path
\* split, a file hash, a manifest read or parse, a manifest write, nor the
\* listing of the vendor directory.
C12_Original ==
    (mode \in {"files", "packages", "all"} /\ Done) => (err.kind = "none" <=> ~StepFailed)

\* the files mapping a run is to leave for a package: in Mode A the pre-run
\* mapping with every requested path of the package set to the digest of its
\* file, or taken out if the file is absent; in Mode B every pre-run key set
\* to the digest of its file, or taken out if the file is absent
FileOf(pkg, k) == <<"vendor", pkg>> \o k
UpdatedKeys(pkg) ==
    IF mode = "files"
    THEN {Tail(p) : p \in {q \in Requested : Len(q) >= 2 /\ q[1] = pkg}}
    ELSE DocKeySet(disk0[ManifestPath(pkg)])
MergedKeys(pkg) ==
    {k \in DocKeySet(disk0[ManifestPath(pkg)]) \cup UpdatedKeys(pkg) :
        k \in UpdatedKeys(pkg) => exists(fs, FileOf(pkg, k))}
IsMerged(pkg) ==
    LET mp == ManifestPath(pkg)
    IN  /\ disk[mp].kind = "json"
        /\ disk[mp].package = disk0[mp].package
        /\ DocKeySet(disk[mp]) = MergedKeys(pkg)
        /\ \A k \in MergedKeys(pkg) :
              DocHashes(disk[mp], k) =
                  IF k \in UpdatedKeys(pkg) THEN {Digest(fs[FileOf(pkg, k)])}
                  ELSE DocHashes(disk0[mp], k)

\* C13: at every point of every run of either mode, the files and package of
\* each manifest file are those it had before the run or those with all the
\* updates of the run for its package merged; in Mode B a failed hash of a key
\* of a package leaves the manifest file of that package as it was.
C13_NoPartialManifest ==
    mode \in {"files", "packages", "all"} =>
        /\ \A pkg \in Pkgs :
              disk[ManifestPath(pkg)] = disk0[ManifestPath(pkg)] \/ IsMerged(pkg)
        /\ mode \in {"packages", "all"} =>
              \A t \in DOMAIN tasks :
                  (tasks[t].err.kind = "HashIo") =>
                      disk[ManifestPath(packages[t])] = disk0[ManifestPath(packages[t])]

\* a Mode B run in which the task of a package of two keys wrote its
\* manifest and the task of another package failed on a hash
C13_Witness ==
    /\ mode \in {"packages", "all"}
    /\ \E t \in DOMAIN tasks, u \in DOMAIN tasks :
          /\ tasks[t].pc = "done"
          /\ Cardinality(DOMAIN tasks[t].results) = 2
          /\ disk[ManifestPath(packages[t])] # disk0[ManifestPath(packages[t])]
          /\ tasks[u].pc = "failed" /\ tasks[u].err.kind = "HashIo"

\* the requested or tracked files that exist but cannot be hashed
UnhashableA == {p \in Requested : Len(p) >= 2 /\ fs[join(vendor, p)] = "dir"}
UnhashableB(pkg) == {k \in DocKeySet(disk0[ManifestPath(pkg)]) : fs[FileOf(pkg, k)] = "dir"}

\* C14: with ignore_missing set, a key leaves a manifest file only if its
\* file does not exist; a requested file (Mode A) or a key of a requested
\* package (Mode B) that exists but cannot be hashed makes the run fail, and
\* its key stays in the manifest file with the hash it had.
C14_OnlyMissingIgnored ==
    (ignore_missing /\ mode \in {"files", "packages", "all"}) =>
        /\ \A pkg \in Pkgs :
              \A k \in DocKeySet(disk0[ManifestPath(pkg)]) \ DocKeySet(disk[ManifestPath(pkg)]) :
                  fs[FileOf(pkg, k)] = "absent"
        /\ mode = "files" =>
              \A p \in UnhashableA :
                  /\ Done => err.kind # "none"
                  /\ disk[ManifestPath(p[1])] = disk0[ManifestPath(p[1])]
                  /\ \A k \in DOMAIN results :
                        files_in_vendor_dir[k] = p => results[k].st \in {"pending", "err"}
        /\ mode \in {"packages", "all"} =>
              \A pkg \in RequestedPkgs \cap Pkgs :
                  UnhashableB(pkg) # {} =>
                      /\ Done => err.kind # "none"
                      /\ disk[ManifestPath(pkg)] = disk0[ManifestPath(pkg)]

\* a Mode B run with ignore_missing that failed on the hash of a key whose
\* file is a directory, while the key of an absent file was to be removed
C14_Witness ==
    /\ ignore_missing /\ mode \in {"packages", "all"} /\ Done
    /\ err.kind = "HashIo" /\ fs[err.path] = "dir"
    /\ \E t \in DOMAIN tasks :
          /\ tasks[t].err = err
          /\ \E k \in DOMAIN tasks[t].results :
                tasks[t].results[k].st = "ok" /\ tasks[t].results[k].digest = None

\* the entries of the vendor directory that are directories; the entry
\* "stray" is a regular file of the vendor directory
Subdirs == {e \in entries : exists(fs, join(vendor, <<e>>)) /\ fs[join(vendor, <<e>>)] = "dir"}

\* C15: for the "all" request, when the vendor directory is listed without
\* failure, the packages Mode B processes are exactly the entries of the
\* vendor directory that are directories.
C15_Original ==
    (mode = "all" /\ pc # "list" /\ fs[vendor] = "dir") => RequestedPkgs = Subdirs

\* C16: one request shape drives a run: the explicit files if there are any,
\* else "all" if the flag is set, else the package list, and only the mode of
\* that shape acts; when shell completion is selected no manifest is loaded,
\* no file is hashed and no manifest is written, and the run succeeds.
C16_OneShape ==
    pc # "main" =>
        /\ (mode = "files") = (files_in_vendor_dir # <<>>)
        /\ (mode = "all") = (files_in_vendor_dir = <<>> /\ args.all)
        /\ (mode = "packages") = (files_in_vendor_dir = <<>> /\ ~args.all)
        /\ mode = "files" => (tasks = <<>> /\ packages = <<>>)
        /\ mode # "files" => (results = <<>> /\ checksums = <<>>)
        /\ mode = "packages" => \A mp \in DOMAIN loads : PkgOfManifest(mp) \in RequestedPkgs
        /\ args.completion # None =>
              /\ loads = <<>> /\ writes = <<>> /\ disk = disk0
              /\ results = <<>> /\ tasks = <<>> /\ checksums = <<>>
              /\ Done => err.kind = "none"

\* a finished run for which shell completion was selected
C16_Witness ==
    /\ args.completion # None
    /\ Done /\ err.kind = "none"
    /\ \E mp \in DOMAIN disk0 : Len(disk0[mp].files) >= 1

AllHashed(res) == \A j \in DOMAIN res : res[j].st # "pending"

\* the merge of Mode A has started: only then is there an in-memory manifest
MergingA == mode = "files" /\ (pc \in {"merge", "write"} \/ idx > 1 \/ checksums # <<>>)

\* a step that changes an in-memory manifest of Mode A is taken by the one
\* sequential loop, after every hash of the run, and changes no hash result
MutatesA == (run' = run /\ checksums' # checksums) => (AllHashed(results) /\ results' = results)

\* a step that changes the in-memory manifest of task t of Mode B is its load
\* or its merge, after every hash of the package; it changes no hash result
\* and no other task
MutatesB ==
    \A t \in (DOMAIN tasks) \cap (DOMAIN tasks') :
        tasks'[t].checksum # tasks[t].checksum =>
            /\ \A u \in (DOMAIN tasks) \ {t} : tasks'[u] = tasks[u]
            /\ \/ tasks[t].pc = "idle"
               \/ /\ tasks[t].pc = "merge"
                  /\ AllHashed(tasks[t].results)
                  /\ tasks'[t].results = tasks[t].results

\* C17: under every interleaving, the merge into an in-memory manifest starts
\* only after every hash relevant to it has completed (Mode A: every hash of
\* the run; Mode B: every hash of the package), each in-memory manifest is
\* changed by the steps of one task only, and no hash step overlaps a merge.
C17_MergeAfterHashes ==
    /\ [](MergingA => AllHashed(results))
    /\ [](\A t \in DOMAIN tasks :
             tasks[t].pc \in {"merge", "done"} => AllHashed(tasks[t].results))
    /\ [][MutatesA /\ MutatesB]_vars

\* a package of two files is merged and written while a hash of another
\* task is still to come
C17_Witness ==
    \E t \in DOMAIN tasks, u \in DOMAIN tasks :
        /\ tasks[t].pc = "done"
        /\ Cardinality(DOMAIN tasks[t].results) >= 2
        /\ tasks[u].pc = "map"
        /\ ~AllHashed(tasks[u].results)

\* the touched manifests that precede, and that do not precede, package pkg
Before(pkg) == {mp \in Touched : NameLess(PkgOfManifest(mp), pkg)}
NotBefore(pkg) == {mp \in Touched : ~NameLess(PkgOfManifest(mp), pkg)}

\* C18: in Mode A the touched manifests are written one after the other in
\* ascending order of package name, each at most once, and the first write
\* failure ends the run: the manifests before the failing one are written and
\* hold their merged content, the failing one and its successors hold their
\* pre-run content.
C18_AscendingWrites ==
    mode = "files" =>
        /\ \A mp \in Written :
              /\ writes[mp] = 1
              /\ mp \in Touched
              /\ Before(PkgOfManifest(mp)) \subseteq Written
        /\ (Done /\ err.kind = "WriteManifest") =>
              LET failing == PkgOfManifest(err.path)
              IN  /\ err.path \in Touched \ writable
                  /\ \A mp \in Before(failing) :
                        mp \in Written /\ IsMerged(PkgOfManifest(mp))
                  /\ \A mp \in NotBefore(failing) :
                        mp \notin Written /\ disk[mp] = disk0[mp]

\* the write of the second package fails after the first one was rewritten
C18_Witness ==
    /\ mode = "files" /\ Done /\ err.kind = "WriteManifest"
    /\ \E mp \in Before(PkgOfManifest(err.path)) : mp \in Written /\ disk[mp] # disk0[mp]

\* the manifests of the packages the request names
Named ==
    IF mode = "files" THEN {ManifestPath(p[1]) : p \in Requested}
    ELSE {ManifestPath(pkg) : pkg \in RequestedPkgs}

\* the keys of the pre-run manifest of pkg that the request does not name
Unrequested(pkg) == DocKeySet(disk0[ManifestPath(pkg)]) \ UpdatedKeys(pkg)

\* C19: a run loads and writes only manifests of packages the request names
\* (Mode A: the first segment of a requested path; Mode B: a member of the
\* list), every other manifest file is as before the run, and in Mode A a
\* key of a manifest that is not a requested path-in-package is still a key
\* of it, with its pre-run hash.
C19_Frame ==
    /\ DOMAIN loads \subseteq Named
    /\ Written \subseteq Named
    /\ \A mp \in (DOMAIN disk) \ Named : disk[mp] = disk0[mp]
    /\ mode = "files" =>
          \A mp \in DOMAIN disk : \A k \in Unrequested(PkgOfManifest(mp)) :
              /\ k \in DocKeySet(disk[mp])
              /\ DocHashes(disk[mp], k) = DocHashes(disk0[mp], k)

\* a Mode A run rewrote the manifest of one package, which has a key the
\* request does not name, and the vendor directory has another package
C19_Witness ==
    /\ mode = "files" /\ Ok
    /\ \E mp \in Written :
          /\ disk[mp] # disk0[mp]
          /\ Unrequested(PkgOfManifest(mp)) # {}
    /\ (DOMAIN disk) \ Named # {}

====
